---- MODULE Spec2Model ----
(***************************************************************************)
(* EVA Python Core (src/python/eva_core.py): the request dispatcher        *)
(* EVAPythonCore, its four capability components (NLPProcessor, MLTrainer, *)
(* DataAnalyzer, NeuralEngine), its lifecycle, and the transport adapter   *)
(* EVAService in front of it.                                              *)
(*                                                                         *)
(* Coroutines run on one asyncio event loop.  A coroutine gives up control *)
(* only at an await; the model lets other coroutines run at every await of *)
(* initialize() (the components' initialize() and load_default_models()    *)
(* are where a real backend would suspend), and between the creation of a  *)
(* process_request() coroutine and its execution.  The body of             *)
(* process_request() awaits only coroutines that never suspend, so it runs *)
(* as one step.                                                            *)
(***************************************************************************)
EXTENDS Integers, Sequences, FiniteSets, TLC

VARIABLES
    is_initialized,   \* EVAPythonCore.is_initialized
    models,           \* EVAPythonCore.models: the default catalog
    init_pc,          \* position of the initialize() coroutine
    init_done,        \* components whose initialize() returned in this call
    init_failed,      \* the component whose initialize() raised in this call
    ready,            \* components whose initialize() has ever returned
    loaded,           \* whether load_default_models() has ever run
    ml_models,        \* MLTrainer.models
    networks,         \* NeuralEngine.networks
    str_hash,         \* hash() of the strings hashed so far in this process
    completed,        \* whether a call of initialize() has returned
    pending,          \* process_request() tasks created and not yet run
    finished,         \* the process_request() call the last step ran, if any
    observed,         \* what the callers have been answered so far
    answered          \* the calls a caller has noted, each with its id

vars == <<is_initialized, models, init_pc, init_done, init_failed, ready,
          loaded, ml_models, networks, str_hash, completed, pending, finished,
          observed, answered>>

\* The dispatcher's fields and the progress of initialize().
lifecycle == <<is_initialized, models, init_pc, init_done, init_failed, ready,
               loaded, completed>>

\* The components' private stores, with the process's string hashing.
stores == <<ml_models, networks, str_hash>>

----------------------------------------------------------------------------
(* Mappings (Python dicts) are functions; the empty dict is the function   *)
(* with the empty domain.                                                  *)

EmptyDict == [k \in {} |-> TRUE]

\* d[k] = v on a dict: insert or overwrite.
DictSet(d, k, v) == [x \in DOMAIN d \cup {k} |-> IF x = k THEN v ELSE d[x]]

\* d.get(k, default)
DictGet(d, k, default) == IF k \in DOMAIN d THEN d[k] ELSE default

----------------------------------------------------------------------------
(* Request data and options are Python dicts built by the caller.  They    *)
(* are sequences of <<key, value>> items with distinct keys, in insertion  *)
(* order: str() of a dict renders the items in that order, == compares the *)
(* items as a set.                                                         *)

Keys(d) == {d[i][1] : i \in DOMAIN d}

\* d.get(k, default)
Get(d, k, default) ==
    IF k \in Keys(d) THEN d[CHOOSE i \in DOMAIN d : d[i][1] = k][2]
    ELSE default

\* d1 == d2 on dicts
DictEq(d1, d2) ==
    {d1[i] : i \in DOMAIN d1} = {d2[i] : i \in DOMAIN d2}

\* An Optional value: None is the empty set, a present value v is {v}.
None == {}

Some(v) == {v}

\* s.startswith(prefix)
StartsWith(s, prefix) ==
    /\ Len(s) >= Len(prefix)
    /\ SubSeq(s, 1, Len(prefix)) = prefix

\* sub in s, for strings
Contains(s, sub) ==
    \E i \in 1..(Len(s) - Len(sub) + 1) : SubSeq(s, i, i + Len(sub) - 1) = sub

\* The characters str.split() separates at, among those TLA+ strings hold.
Whitespace == {" ", "\t", "\n", "\r", "\f"}

\* The character at position i of string s.
CharAt(s, i) == SubSeq(s, i, i)

\* len(text.split(' ')): the pieces between single spaces, empty ones
\* included.
WordCount_SplitOnSpace(text) ==
    Cardinality({i \in 1..Len(text) : CharAt(text, i) = " "}) + 1

\* len(text.split()): the maximal runs of non-whitespace characters.
WordCount(text) ==
    Cardinality({i \in 1..Len(text) :
        /\ CharAt(text, i) \notin Whitespace
        /\ (i = 1 \/ CharAt(text, i - 1) \in Whitespace)})

\* len(text.split('.')): one more than the number of '.' characters.
SentenceCount(text) ==
    Cardinality({i \in 1..Len(text) : CharAt(text, i) = "."}) + 1

----------------------------------------------------------------------------
(* str(data), as train_model and create_network hash it: Python renders a  *)
(* dict as {'key': value, ...} in insertion order.  The rendering of a     *)
(* value depends on its type, which the key fixes in this model.           *)

StringKeys == {"text", "target", "architecture", "activation"}

StringListKeys == {"features"}

IntListKeys == {"input", "layers"}

\* repr of a str: single-quoted.
ReprStr(v) == "'" \o v \o "'"

RECURSIVE ReprStrList(_)
ReprStrList(l) ==
    IF l = <<>> THEN ""
    ELSE ReprStr(Head(l)) \o (IF Len(l) > 1 THEN ", " ELSE "") \o ReprStrList(Tail(l))

RECURSIVE ReprIntList(_)
ReprIntList(l) ==
    IF l = <<>> THEN ""
    ELSE ToString(Head(l)) \o (IF Len(l) > 1 THEN ", " ELSE "") \o ReprIntList(Tail(l))

RECURSIVE ReprRows(_)
ReprRows(l) ==
    IF l = <<>> THEN ""
    ELSE "[" \o ReprIntList(Head(l)) \o "]" \o (IF Len(l) > 1 THEN ", " ELSE "")
         \o ReprRows(Tail(l))

ReprValue(k, v) ==
    IF k \in StringKeys THEN ReprStr(v)
    ELSE IF k \in StringListKeys THEN "[" \o ReprStrList(v) \o "]"
    ELSE IF k \in IntListKeys THEN "[" \o ReprIntList(v) \o "]"
    ELSE "[" \o ReprRows(v) \o "]"

RECURSIVE ReprItems(_)
ReprItems(d) ==
    IF d = <<>> THEN ""
    ELSE ReprStr(Head(d)[1]) \o ": " \o ReprValue(Head(d)[1], Head(d)[2])
         \o (IF Len(d) > 1 THEN ", " ELSE "") \o ReprItems(Tail(d))

\* str(d) for a dict d
Repr(d) == "{" \o ReprItems(d) \o "}"

----------------------------------------------------------------------------
(* The components, in the order initialize() awaits them.                  *)

Components == <<"nlp", "ml", "data", "neural">>

ComponentSet == {Components[i] : i \in DOMAIN Components}

\* Position of component c in the initialization order.
Order(c) == CHOOSE i \in DOMAIN Components : Components[i] = c

\* Where initialize() continues after component c: the next component's
\* initialize(), or load_default_models() after the last one.
AfterComponent(c) ==
    IF Order(c) < Len(Components) THEN Components[Order(c) + 1] ELSE "load"

----------------------------------------------------------------------------
(* What a handler does: it returns a result mapping or raises an error     *)
(* with a message, and leaves the component stores as given.               *)

Return(result) ==
    [raised |-> FALSE, exc |-> "", result |-> Some(result), message |-> None,
     ml_models |-> ml_models, networks |-> networks, str_hash |-> str_hash]

\* raise ValueError(message)
Raise(message) ==
    [raised |-> TRUE, exc |-> "ValueError", result |-> None,
     message |-> Some(message),
     ml_models |-> ml_models, networks |-> networks, str_hash |-> str_hash]

(* hash(s) of a str is salted per process (PYTHONHASHSEED): within one     *)
(* process it is a function of s, unknown in advance.  The value is drawn  *)
(* the first time s is hashed and is the same from then on; h is the draw. *)
HashMod == 10000

PyHash(s, h) == IF s \in DOMAIN str_hash THEN str_hash[s] ELSE h

Hashed(s, h) == DictSet(str_hash, s, PyHash(s, h))

----------------------------------------------------------------------------
(* NLPProcessor                                                            *)

AnalyzeText(text) ==
    [word_count |-> WordCount(text), char_count |-> Len(text),
     sentences |-> SentenceCount(text), language |-> "en",
     complexity_score |-> "0.7", readability |-> "0.8"]

ExtractEntities(text) ==
    [entities |-> <<[text |-> "EVA", label |-> "SYSTEM", confidence |-> "0.95"],
                    [text |-> "Python", label |-> "TECHNOLOGY", confidence |-> "0.9"]>>,
     entity_count |-> 2]

SentimentAnalysis(text) ==
    [sentiment |-> "positive", confidence |-> "0.85",
     scores |-> [positive |-> "0.85", negative |-> "0.10", neutral |-> "0.05"]]

\* np.random.rand(768): rnd stands for the vector drawn.
GenerateEmbeddings(text, rnd) ==
    [embedding |-> [random |-> rnd, size |-> 768], dimension |-> 768,
     model |-> "distilbert-base-uncased"]

NLPCapabilities ==
    <<"text_analysis", "entity_extraction", "sentiment_analysis",
      "embedding_generation", "language_detection">>

NLPProcess(method, data, options, rnd) ==
    IF method = "nlp_analyze_text"
    THEN Return(AnalyzeText(Get(data, "text", "")))
    ELSE IF method = "nlp_extract_entities"
    THEN Return(ExtractEntities(Get(data, "text", "")))
    ELSE IF method = "nlp_sentiment_analysis"
    THEN Return(SentimentAnalysis(Get(data, "text", "")))
    ELSE IF method = "nlp_generate_embeddings"
    THEN Return(GenerateEmbeddings(Get(data, "text", ""), rnd))
    ELSE Raise("Unknown NLP method: " \o method)

----------------------------------------------------------------------------
(* MLTrainer                                                               *)

ModelId(data, h) == "model_" \o ToString(PyHash(Repr(data), h) % HashMod)

\* train_model that keeps the store to one model per model type: the models
\* of the same type trained before are dropped.
TrainModel_Evicting(data, options, h) ==
    LET model_id == ModelId(data, h)
        model_type == Get(options, "model_type", "random_forest")
        entry == [type |-> model_type, trained_at |-> "simulation",
                  features |-> Get(data, "features", <<>>),
                  target |-> Get(data, "target", "unknown")]
        kept == {k \in DOMAIN ml_models : ml_models[k].type # model_type}
    IN  [raised |-> FALSE, exc |-> "",
         result |-> Some([model_id |-> model_id, accuracy |-> "0.92",
                          precision |-> "0.89", recall |-> "0.94",
                          f1_score |-> "0.91", training_time |-> "2.5"]),
         message |-> None,
         ml_models |-> DictSet([k \in kept |-> ml_models[k]], model_id, entry),
         networks |-> networks,
         str_hash |-> Hashed(Repr(data), h)]

\* train_model that builds the store anew from its own entry.
TrainModel_Replace(data, options, h) ==
    LET model_id == ModelId(data, h)
        entry == [type |-> Get(options, "model_type", "random_forest"),
                  trained_at |-> "simulation",
                  features |-> Get(data, "features", <<>>),
                  target |-> Get(data, "target", "unknown")]
    IN  [raised |-> FALSE, exc |-> "",
         result |-> Some([model_id |-> model_id, accuracy |-> "0.92",
                          precision |-> "0.89", recall |-> "0.94",
                          f1_score |-> "0.91", training_time |-> "2.5"]),
         message |-> None,
         ml_models |-> DictSet(EmptyDict, model_id, entry),
         networks |-> networks,
         str_hash |-> Hashed(Repr(data), h)]

\* train_model that names the model after the data and the model type.
TrainModel_IdFromOptions(data, options, h) ==
    LET model_type == Get(options, "model_type", "random_forest")
        text == Repr(data) \o model_type
        model_id == "model_" \o ToString(PyHash(text, h) % HashMod)
        entry == [type |-> model_type, trained_at |-> "simulation",
                  features |-> Get(data, "features", <<>>),
                  target |-> Get(data, "target", "unknown")]
    IN  [raised |-> FALSE, exc |-> "",
         result |-> Some([model_id |-> model_id, accuracy |-> "0.92",
                          precision |-> "0.89", recall |-> "0.94",
                          f1_score |-> "0.91", training_time |-> "2.5"]),
         message |-> None,
         ml_models |-> DictSet(ml_models, model_id, entry),
         networks |-> networks,
         str_hash |-> Hashed(text, h)]

TrainModel(data, options, h) ==
    LET model_type == Get(options, "model_type", "random_forest")
        model_id == ModelId(data, h)
        entry == [type |-> model_type, trained_at |-> "simulation",
                  features |-> Get(data, "features", <<>>),
                  target |-> Get(data, "target", "unknown")]
    IN  [raised |-> FALSE, exc |-> "",
         result |-> Some([model_id |-> model_id, accuracy |-> "0.92",
                          precision |-> "0.89", recall |-> "0.94",
                          f1_score |-> "0.91", training_time |-> "2.5"]),
         message |-> None,
         ml_models |-> DictSet(ml_models, model_id, entry),
         networks |-> networks,
         str_hash |-> Hashed(Repr(data), h)]

\* predict that checks that an id is given and not that the store has it.
Predict_NoLookup(data, options) ==
    LET present == "model_id" \in Keys(options)
        model_id == Get(options, "model_id", "")
    IN  IF ~present \/ model_id = ""
        THEN Raise("Model " \o (IF present THEN model_id ELSE "None")
                   \o " not found")
        ELSE Return([predictions |-> <<>>, confidence |-> "0.85",
                     model_id |-> model_id, prediction_time |-> "0.05"])

\* predict that notes the requested id in the store before it looks it up.
Predict_RegistersFirst(data, options) ==
    LET present == "model_id" \in Keys(options)
        model_id == Get(options, "model_id", "")
        noted == DictSet(ml_models, model_id, [type |-> "requested"])
    IN  IF ~present \/ model_id = "" \/ model_id \notin DOMAIN ml_models
        THEN [Raise("Model " \o (IF present THEN model_id ELSE "None")
                    \o " not found") EXCEPT !.ml_models = noted]
        ELSE Return([predictions |-> <<>>, confidence |-> "0.85",
                     model_id |-> model_id, prediction_time |-> "0.05"])

\* options.get('model_id') is None when the key is missing; str(None) is
\* "None".
Predict(data, options) ==
    LET present == "model_id" \in Keys(options)
        model_id == Get(options, "model_id", "")
        input_data == Get(data, "input", <<>>)
    IN  IF ~present \/ model_id = "" \/ model_id \notin DOMAIN ml_models
        THEN Raise("Model " \o (IF present THEN model_id ELSE "None")
                   \o " not found")
        ELSE Return([predictions |-> IF Len(input_data) > 0
                                     THEN <<"0.1", "0.7", "0.2">> ELSE <<>>,
                     confidence |-> "0.85", model_id |-> model_id,
                     prediction_time |-> "0.05"])

EvaluateModel(data, options) ==
    [accuracy |-> "0.94", precision |-> "0.91", recall |-> "0.96",
     f1_score |-> "0.93", confusion_matrix |-> <<<<85, 5>>, <<3, 92>>>>,
     roc_auc |-> "0.97"]

\* feature_i -> np.random.rand() for each feature; the first 10 selected.
FeatureSelection(data, options, rnd) ==
    LET n == Len(Get(data, "features", <<>>))
        names == [i \in 1..n |-> "feature_" \o ToString(i - 1)]
    IN  [feature_importance |-> [i \in 1..n |-> <<names[i], rnd>>],
         selected_features |-> SubSeq(names, 1, IF n < 10 THEN n ELSE 10),
         importance_method |-> "random_forest"]

MLCapabilities ==
    <<"model_training", "prediction", "model_evaluation",
      "feature_selection", "hyperparameter_tuning">>

MLProcess(method, data, options, rnd, h) ==
    IF method = "ml_train_model" THEN TrainModel(data, options, h)
    ELSE IF method = "ml_predict" THEN Predict(data, options)
    ELSE IF method = "ml_evaluate_model"
    THEN Return(EvaluateModel(data, options))
    ELSE IF method = "ml_feature_selection"
    THEN Return(FeatureSelection(data, options, rnd))
    ELSE Raise("Unknown ML method: " \o method)

----------------------------------------------------------------------------
(* DataAnalyzer                                                            *)

\* An empty or missing dataset is answered with a result that holds the
\* key 'error'; nothing is raised.
AnalyzeData(data) ==
    LET dataset == Get(data, "dataset", <<>>)
    IN  IF dataset = <<>>
        THEN [error |-> "No dataset provided"]
        ELSE [rows |-> Len(dataset), columns |-> Len(dataset[1]),
              missing_values |-> 5,
              data_types |-> [numeric |-> 8, categorical |-> 3, text |-> 2],
              statistics |-> [mean |-> "45.2", std |-> "12.8",
                              min |-> "0.1", max |-> "99.9"]]

CleanData(data) ==
    [cleaned_rows |-> 985, removed_duplicates |-> 15, filled_missing |-> 25,
     outliers_removed |-> 8, cleaning_score |-> "0.94"]

TransformData(data, options) ==
    [transform_applied |-> Get(options, "transform", "standardize"),
     original_shape |-> <<1000, 13>>, transformed_shape |-> <<1000, 13>>,
     scaling_parameters |-> [mean |-> "0.0", std |-> "1.0"]]

ClusterData(data, options, rnd) ==
    LET n_clusters == Get(options, "n_clusters", 3)
    IN  [n_clusters |-> n_clusters,
         cluster_labels |-> [random |-> rnd, size |-> 100],
         cluster_centers |-> [random |-> rnd, size |-> n_clusters * 5],
         silhouette_score |-> "0.72", inertia |-> "234.5"]

DataCapabilities ==
    <<"data_analysis", "data_cleaning", "data_transformation", "clustering",
      "statistical_analysis">>

\* DataProcess whose last branch handles instead of raising.
DataProcess_NoDefault(method, data, options, rnd) ==
    IF method = "data_analyze" THEN Return(AnalyzeData(data))
    ELSE IF method = "data_transform" THEN Return(TransformData(data, options))
    ELSE IF method = "data_cluster" THEN Return(ClusterData(data, options, rnd))
    ELSE Return(CleanData(data))

DataProcess(method, data, options, rnd) ==
    IF method = "data_analyze" THEN Return(AnalyzeData(data))
    ELSE IF method = "data_clean" THEN Return(CleanData(data))
    ELSE IF method = "data_transform" THEN Return(TransformData(data, options))
    ELSE IF method = "data_cluster" THEN Return(ClusterData(data, options, rnd))
    ELSE Raise("Unknown data method: " \o method)

----------------------------------------------------------------------------
(* NeuralEngine                                                            *)

NetworkId(data, h) == "network_" \o ToString(PyHash(Repr(data), h) % HashMod)

CreateNetwork(data, options, h) ==
    LET architecture == Get(data, "architecture", "feedforward")
        network_id == NetworkId(data, h)
        entry == [architecture |-> architecture,
                  layers |-> Get(data, "layers", <<64, 32, 16>>),
                  activation |-> Get(data, "activation", "relu"),
                  created_at |-> "simulation"]
    IN  [raised |-> FALSE, exc |-> "",
         result |-> Some([network_id |-> network_id,
                          architecture |-> architecture,
                          parameters |-> 15840, memory_usage |-> "2.5MB"]),
         message |-> None,
         ml_models |-> ml_models,
         networks |-> DictSet(networks, network_id, entry),
         str_hash |-> Hashed(Repr(data), h)]

\* options.get('network_id'): None when the key is missing.
OptionalGet(d, k) == IF k \in Keys(d) THEN Some(Get(d, k, None)) ELSE None

TrainNetwork(data, options) ==
    [network_id |-> OptionalGet(options, "network_id"),
     epochs_completed |-> Get(options, "epochs", 100),
     final_loss |-> "0.0234", final_accuracy |-> "0.967",
     training_time |-> "45.2", convergence |-> TRUE]

RunInference(data, options, rnd) ==
    [network_id |-> OptionalGet(options, "network_id"),
     output |-> [random |-> rnd, size |-> Len(Get(data, "input", <<>>)) * 3],
     confidence |-> "0.89", inference_time |-> "0.003"]

OptimizeNetwork(data, options) ==
    [optimization_applied |-> "pruning", size_reduction |-> "0.35",
     speed_improvement |-> "2.1", accuracy_retained |-> "0.98"]

NeuralCapabilities ==
    <<"network_creation", "training", "inference", "optimization",
      "transfer_learning">>

\* process whose neural_train records the training in the network store.
NeuralProcess_TrainRecords(method, data, options, rnd, h) ==
    IF method = "neural_create_network" THEN CreateNetwork(data, options, h)
    ELSE IF method = "neural_train"
    THEN [Return(TrainNetwork(data, options)) EXCEPT
             !.networks = DictSet(networks, "last_trained",
                                  [epochs |-> Get(options, "epochs", 100)])]
    ELSE IF method = "neural_inference"
    THEN Return(RunInference(data, options, rnd))
    ELSE IF method = "neural_optimize"
    THEN Return(OptimizeNetwork(data, options))
    ELSE Raise("Unknown neural method: " \o method)

NeuralProcess(method, data, options, rnd, h) ==
    IF method = "neural_create_network" THEN CreateNetwork(data, options, h)
    ELSE IF method = "neural_train" THEN Return(TrainNetwork(data, options))
    ELSE IF method = "neural_inference"
    THEN Return(RunInference(data, options, rnd))
    ELSE IF method = "neural_optimize"
    THEN Return(OptimizeNetwork(data, options))
    ELSE Raise("Unknown neural method: " \o method)

----------------------------------------------------------------------------
(* EVAPythonCore.process_general                                           *)

\* health_check that counts the Trainer's models with the catalog's.
HealthCheck_CountsTrained ==
    [status |-> "healthy", initialized |-> is_initialized,
     models_loaded |-> Cardinality(DOMAIN models)
                       + Cardinality(DOMAIN ml_models),
     uptime |-> "simulation"]

\* health_check that reads initialization off the catalog.
HealthCheck_FromCatalog ==
    [status |-> "healthy", initialized |-> Cardinality(DOMAIN models) > 0,
     models_loaded |-> Cardinality(DOMAIN models), uptime |-> "simulation"]

HealthCheck ==
    [status |-> "healthy", initialized |-> is_initialized,
     models_loaded |-> Cardinality(DOMAIN models), uptime |-> "simulation"]

\* get_capabilities that lists the tags of the components whose
\* initialize() has returned.
GetCapabilities_ReadyOnly ==
    [nlp |-> IF "nlp" \in ready THEN NLPCapabilities ELSE <<>>,
     ml |-> IF "ml" \in ready THEN MLCapabilities ELSE <<>>,
     data |-> IF "data" \in ready THEN DataCapabilities ELSE <<>>,
     neural |-> IF "neural" \in ready THEN NeuralCapabilities ELSE <<>>]

GetCapabilities ==
    [nlp |-> NLPCapabilities, ml |-> MLCapabilities,
     data |-> DataCapabilities, neural |-> NeuralCapabilities]

ProcessGeneral(method, data, options) ==
    IF method = "health_check" THEN Return(HealthCheck)
    ELSE IF method = "get_capabilities" THEN Return(GetCapabilities)
    ELSE Raise("Unknown method: " \o method)

----------------------------------------------------------------------------
(* EVAPythonCore.process_request                                           *)

\* Routing that looks for the introspection names before the prefixes.
Route_IntrospectionFirst(method) ==
    IF Contains(method, "health_check") \/ Contains(method, "get_capabilities")
    THEN "general"
    ELSE IF StartsWith(method, "nlp_") THEN "nlp"
    ELSE IF StartsWith(method, "ml_") THEN "ml"
    ELSE IF StartsWith(method, "data_") THEN "data"
    ELSE IF StartsWith(method, "neural_") THEN "neural"
    ELSE "general"

\* The if/elif chain on request.method: the handler that is awaited.
Route(method) ==
    IF StartsWith(method, "nlp_") THEN "nlp"
    ELSE IF StartsWith(method, "ml_") THEN "ml"
    ELSE IF StartsWith(method, "data_") THEN "data"
    ELSE IF StartsWith(method, "neural_") THEN "neural"
    ELSE "general"

\* The call process_request makes: the routed handler and the arguments it
\* is given.
Dispatch(request) ==
    [handler |-> Route(request.method), method |-> request.method,
     data |-> request.data, options |-> request.options]

\* The handler's process(method, data, options), run on the call's arguments.
Invoke(call, rnd, h) ==
    IF call.handler = "nlp"
    THEN NLPProcess(call.method, call.data, call.options, rnd)
    ELSE IF call.handler = "ml"
    THEN MLProcess(call.method, call.data, call.options, rnd, h)
    ELSE IF call.handler = "data"
    THEN DataProcess(call.method, call.data, call.options, rnd)
    ELSE IF call.handler = "neural"
    THEN NeuralProcess(call.method, call.data, call.options, rnd, h)
    ELSE ProcessGeneral(call.method, call.data, call.options)

\* An except clause that names a class the handlers do not raise.
Caught_KeyErrorOnly(outcome) == outcome.raised /\ outcome.exc = "KeyError"

\* The classes except Exception catches, among those the handlers raise.
ExceptionClasses == {"ValueError"}

\* except Exception as e
Caught(outcome) == outcome.raised /\ outcome.exc \in ExceptionClasses

\* SuccessResponse that takes the metadata from the handler's mapping.
SuccessResponse_MetadataFromResult(request, outcome) ==
    [request_id |-> request.request_id, success |-> TRUE,
     result |-> outcome.result, error |-> None,
     metadata |-> outcome.result]

\* SuccessResponse with the error field filled in as well.
SuccessResponse_WithError(request, outcome) ==
    [request_id |-> request.request_id, success |-> TRUE,
     result |-> outcome.result, error |-> Some(""),
     metadata |-> Some([processing_time |-> "0.1", model_used |-> "default"])]

\* FailureResponse without the request's id.
FailureResponse_NoId(request, outcome) ==
    [request_id |-> "", success |-> FALSE,
     result |-> None, error |-> outcome.message, metadata |-> None]

\* ProcessingResponse(request_id, success, result, error, metadata); the
\* fields that are not passed keep their default, None.
SuccessResponse(request, outcome) ==
    [request_id |-> request.request_id, success |-> TRUE,
     result |-> outcome.result, error |-> None,
     metadata |-> Some([processing_time |-> "0.1", model_used |-> "default"])]

FailureResponse(request, outcome) ==
    [request_id |-> request.request_id, success |-> FALSE,
     result |-> None, error |-> outcome.message, metadata |-> None]

(* One run of process_request(request).  rnd and h are the random draw and *)
(* the hash draw the handler may use.  The value tells how the call ended  *)
(* (returned a response, or let an error escape), the call that was made   *)
(* to the handler, and the stores the handler leaves.                      *)
ProcessRequest(request, rnd, h) ==
    LET call == Dispatch(request)
        outcome == Invoke(call, rnd, h)
    IN  [returned |-> ~outcome.raised \/ Caught(outcome),
         response |-> IF ~outcome.raised
                      THEN Some(SuccessResponse(request, outcome))
                      ELSE IF Caught(outcome)
                      THEN Some(FailureResponse(request, outcome))
                      ELSE None,
         call |-> call,
         ml_models |-> outcome.ml_models,
         networks |-> outcome.networks,
         str_hash |-> outcome.str_hash]

----------------------------------------------------------------------------
(* EVAPythonCore.load_default_models: the two catalog entries, written in  *)
(* this order.                                                             *)

DefaultModelKeys == <<"nlp_base", "ml_classifier">>

DefaultModel(k) ==
    IF k = "nlp_base"
    THEN [type |-> "transformer", name |-> "distilbert-base-uncased",
          status |-> "loaded",
          capabilities |-> <<"text_classification", "embeddings", "sentiment">>]
    ELSE [type |-> "sklearn", name |-> "random_forest",
          status |-> "loaded",
          capabilities |-> <<"classification", "feature_importance">>]

\* The catalog after the first n writes of load_default_models.
RECURSIVE LoadedModels(_, _)
LoadedModels(catalog, n) ==
    IF n = 0 THEN catalog
    ELSE DictSet(LoadedModels(catalog, n - 1), DefaultModelKeys[n],
                 DefaultModel(DefaultModelKeys[n]))

----------------------------------------------------------------------------
(* EVAPythonCore.initialize                                                *)

\* initialize() that clears is_initialized when it starts.
InitializeCall_Reset ==
    /\ finished = <<>>
    /\ init_pc \in {"idle", "done", "raised"}
    /\ init_pc' = Components[1]
    /\ init_done' = {}
    /\ init_failed' = None
    /\ is_initialized' = FALSE
    /\ UNCHANGED <<models, ready, loaded, completed, stores, pending, finished,
                   observed, answered>>

\* A call of initialize() runs to its first await, nlp_processor.initialize().
\* Nothing prevents a second call once an earlier one has returned or raised.
InitializeCall ==
    /\ finished = <<>>
    /\ init_pc \in {"idle", "done", "raised"}
    /\ init_pc' = Components[1]
    /\ init_done' = {}
    /\ init_failed' = None
    /\ UNCHANGED <<is_initialized, models, ready, loaded, completed, stores,
                   pending, finished, observed, answered>>

\* initialize() with is_initialized = True placed before load_default_models.
ComponentInitialized_FlagEarly(c) ==
    /\ finished = <<>>
    /\ init_pc = c
    /\ init_pc' = AfterComponent(c)
    /\ init_done' = init_done \cup {c}
    /\ ready' = ready \cup {c}
    /\ is_initialized' = (is_initialized \/ AfterComponent(c) = "load")
    /\ UNCHANGED <<models, init_failed, loaded, completed, stores, pending,
                   finished, observed, answered>>

\* await <component c>.initialize() returns: initialize() goes on to its
\* next await.
ComponentInitialized(c) ==
    /\ finished = <<>>
    /\ init_pc = c
    /\ init_pc' = AfterComponent(c)
    /\ init_done' = init_done \cup {c}
    /\ ready' = ready \cup {c}
    /\ UNCHANGED <<is_initialized, models, init_failed, loaded, completed,
                   stores, pending, finished, observed, answered>>

\* An except clause that logs and does not re-raise: initialize() returns.
ComponentInitFails_Swallowed(c) ==
    /\ finished = <<>>
    /\ init_pc = c
    /\ init_pc' = "done"
    /\ init_failed' = Some(c)
    /\ UNCHANGED <<is_initialized, models, init_done, ready, loaded,
                   completed, stores, pending, finished, observed, answered>>

\* await <component c>.initialize() raises: the except clause of
\* initialize() logs and re-raises; no field is assigned.
ComponentInitFails(c) ==
    /\ finished = <<>>
    /\ init_pc = c
    /\ init_pc' = "raised"
    /\ init_failed' = Some(c)
    /\ UNCHANGED <<is_initialized, models, init_done, ready, loaded,
                   completed, stores, pending, finished, observed, answered>>

\* load_default_models without its try: an exception after n of its writes
\* reaches the except clause of initialize(), which re-raises.
LoadDefaultModels_Propagates(n) ==
    /\ finished = <<>>
    /\ init_pc = "load"
    /\ models' = LoadedModels(models, n)
    /\ loaded' = TRUE
    /\ init_pc' = IF n < Len(DefaultModelKeys) THEN "raised" ELSE "set"
    /\ UNCHANGED <<is_initialized, init_done, init_failed, ready, completed,
                   stores, pending, finished, observed, answered>>

\* await load_default_models().  An exception after n of its writes is
\* caught inside it (a warning is logged) and it returns; n =
\* Len(DefaultModelKeys) is also the run without an exception.
LoadDefaultModels(n) ==
    /\ finished = <<>>
    /\ init_pc = "load"
    /\ models' = LoadedModels(models, n)
    /\ loaded' = TRUE
    /\ init_pc' = "set"
    /\ UNCHANGED <<is_initialized, init_done, init_failed, ready, completed,
                   stores, pending, finished, observed, answered>>

\* self.is_initialized = True, and initialize() returns.
InitializeReturns ==
    /\ finished = <<>>
    /\ init_pc = "set"
    /\ is_initialized' = TRUE
    /\ completed' = TRUE
    /\ init_pc' = "done"
    /\ UNCHANGED <<models, init_done, init_failed, ready, loaded, stores,
                   pending, finished, observed, answered>>

Initialize ==
    \/ InitializeCall
    \/ \E c \in ComponentSet : ComponentInitialized(c)
    \/ \E c \in ComponentSet : ComponentInitFails(c)
    \/ \E n \in 0..Len(DefaultModelKeys) : LoadDefaultModels(n)
    \/ InitializeReturns

----------------------------------------------------------------------------
(* json.loads, as EVAService.ProcessRequest applies it to the wire fields  *)
(* data and options.  Positions are 1-based; a failure carries the 0-based *)
(* index json reports.  The scanner covers objects, arrays, strings        *)
(* without backslashes, integers, true, false and null.                    *)

JsonWhitespace == {" ", "\t", "\n", "\r"}

\* s[i:i+1]: the character at position i, "" past the end.
At(s, i) == IF i >= 1 /\ i <= Len(s) THEN CharAt(s, i) ELSE ""

JsonOk(value, next) == [ok |-> TRUE, value |-> value, next |-> next]

\* raise JSONDecodeError(msg, s, pos), pos the 0-based index of position p.
JsonFail(msg, p) == [ok |-> FALSE, msg |-> msg, char |-> p - 1]

RECURSIVE SkipWs(_, _)
SkipWs(s, i) ==
    IF At(s, i) \in JsonWhitespace THEN SkipWs(s, i + 1) ELSE i

\* The position of the first '"' at or after i, 0 when there is none.
RECURSIVE StringEnd(_, _)
StringEnd(s, i) ==
    IF i > Len(s) THEN 0
    ELSE IF CharAt(s, i) = "\"" THEN i
    ELSE StringEnd(s, i + 1)

\* scanstring(s, end), i the position after the opening quote.
ScanString(s, i) ==
    LET j == StringEnd(s, i)
    IN  IF j = 0 THEN JsonFail("Unterminated string starting at", i - 1)
        ELSE JsonOk(SubSeq(s, i, j - 1), j + 1)

DecimalDigits == "0123456789"

IsDigit(c) == c # "" /\ Contains(DecimalDigits, c)

DigitValue(c) == CHOOSE d \in 0..9 : CharAt(DecimalDigits, d + 1) = c

\* The first position at or after i that holds no digit.
RECURSIVE DigitsEnd(_, _)
DigitsEnd(s, i) == IF IsDigit(At(s, i)) THEN DigitsEnd(s, i + 1) ELSE i

\* The value of the digits at positions i..j.
RECURSIVE DigitsValue(_, _, _)
DigitsValue(s, i, j) ==
    IF j < i THEN 0
    ELSE 10 * DigitsValue(s, i, j - 1) + DigitValue(CharAt(s, j))

\* NUMBER_RE, integer part: -?(0|[1-9][0-9]*): the position after the match,
\* i itself when nothing matches.
NumberEnd(s, i) ==
    LET d == IF At(s, i) = "-" THEN i + 1 ELSE i
    IN  IF At(s, d) = "0" THEN d + 1
        ELSE IF IsDigit(At(s, d)) THEN DigitsEnd(s, d)
        ELSE i

NumberValue(s, i, e) ==
    IF At(s, i) = "-" THEN 0 - DigitsValue(s, i + 1, e - 1)
    ELSE DigitsValue(s, i, e - 1)

\* pairs[key] = value on the items of a dict: a repeated key keeps its
\* place and takes the new value.
PutItem(pairs, key, value) ==
    IF key \in Keys(pairs)
    THEN [n \in DOMAIN pairs |->
             IF pairs[n][1] = key THEN <<key, value>> ELSE pairs[n]]
    ELSE Append(pairs, <<key, value>>)

ExpectingName == "Expecting property name enclosed in double quotes"

RECURSIVE ParseValue(_, _)
RECURSIVE ParseMembers(_, _, _)
RECURSIVE ParseElements(_, _, _)

\* JSONObject(s, end), i the position after '{'.
ParseObject(s, i) ==
    LET j == SkipWs(s, i)
    IN  IF At(s, j) = "}" THEN JsonOk(<<>>, j + 1)
        ELSE IF At(s, j) # "\""
        THEN JsonFail(ExpectingName, j)
        ELSE ParseMembers(s, j + 1, <<>>)

\* The loop of JSONObject, i the position after the opening quote of a key.
ParseMembers(s, i, pairs) ==
    LET key == ScanString(s, i)
    IN  IF ~key.ok THEN key
        ELSE LET c == SkipWs(s, key.next)
             IN  IF At(s, c) # ":" THEN JsonFail("Expecting ':' delimiter", c)
                 ELSE LET v == ParseValue(s, SkipWs(s, c + 1))
                      IN  IF ~v.ok THEN v
                          ELSE LET e == SkipWs(s, v.next)
                                   added == PutItem(pairs, key.value, v.value)
                                   k == SkipWs(s, e + 1)
                               IN  IF At(s, e) = "}" THEN JsonOk(added, e + 1)
                                   ELSE IF At(s, e) # ","
                                   THEN JsonFail("Expecting ',' delimiter", e)
                                   ELSE IF At(s, k) # "\""
                                   THEN JsonFail(ExpectingName, k)
                                   ELSE ParseMembers(s, k + 1, added)

\* JSONArray(s, end), i the position after '['.
ParseArray(s, i) ==
    LET j == SkipWs(s, i)
    IN  IF At(s, j) = "]" THEN JsonOk(<<>>, j + 1)
        ELSE ParseElements(s, j, <<>>)

\* The loop of JSONArray, i the position of the next element.
ParseElements(s, i, values) ==
    LET v == ParseValue(s, i)
    IN  IF ~v.ok THEN v
        ELSE LET e == SkipWs(s, v.next)
             IN  IF At(s, e) = "]"
                 THEN JsonOk(Append(values, v.value), e + 1)
                 ELSE IF At(s, e) # ","
                 THEN JsonFail("Expecting ',' delimiter", e)
                 ELSE ParseElements(s, SkipWs(s, e + 1),
                                    Append(values, v.value))

\* scan_once(s, idx)
ParseValue(s, i) ==
    LET c == At(s, i)
        e == NumberEnd(s, i)
    IN  IF c = "\"" THEN ScanString(s, i + 1)
        ELSE IF c = "{" THEN ParseObject(s, i + 1)
        ELSE IF c = "[" THEN ParseArray(s, i + 1)
        ELSE IF c = "n" /\ i + 3 <= Len(s) /\ SubSeq(s, i, i + 3) = "null"
        THEN JsonOk(None, i + 4)
        ELSE IF c = "t" /\ i + 3 <= Len(s) /\ SubSeq(s, i, i + 3) = "true"
        THEN JsonOk(TRUE, i + 4)
        ELSE IF c = "f" /\ i + 4 <= Len(s) /\ SubSeq(s, i, i + 4) = "false"
        THEN JsonOk(FALSE, i + 5)
        ELSE IF e > i THEN JsonOk(NumberValue(s, i, e), e)
        ELSE JsonFail("Expecting value", i)

\* json.loads(s): one value, with nothing but whitespace around it.
JsonLoads(s) ==
    LET v == ParseValue(s, SkipWs(s, 1))
    IN  IF ~v.ok THEN v
        ELSE IF SkipWs(s, v.next) # Len(s) + 1
        THEN JsonFail("Extra data", SkipWs(s, v.next))
        ELSE v

\* str(e) of the JSONDecodeError: "msg: line L column C (char N)".
JsonErrorText(s, failure) ==
    LET newlines == {i \in 1..failure.char : CharAt(s, i) = "\n"}
        last == IF newlines = {} THEN 0
                ELSE CHOOSE i \in newlines : \A j \in newlines : j <= i
    IN  failure.msg \o ": line " \o ToString(Cardinality(newlines) + 1)
        \o " column " \o ToString(failure.char - last + 1)
        \o " (char " \o ToString(failure.char) \o ")"

----------------------------------------------------------------------------
(* The callers.  Requests are drawn from the sets below: every method name *)
(* the components and the general handler know, names they do not know,    *)
(* and for each method at least two payloads.                              *)

NLPMethods ==
    {"nlp_analyze_text", "nlp_extract_entities", "nlp_sentiment_analysis",
     "nlp_generate_embeddings"}

MLMethods ==
    {"ml_train_model", "ml_predict", "ml_evaluate_model", "ml_feature_selection"}

DataMethods == {"data_analyze", "data_clean", "data_transform", "data_cluster"}

NeuralMethods ==
    {"neural_create_network", "neural_train", "neural_inference",
     "neural_optimize"}

GeneralMethods == {"health_check", "get_capabilities"}

KnownMethods ==
    NLPMethods \cup MLMethods \cup DataMethods \cup NeuralMethods
    \cup GeneralMethods

UnknownMethods ==
    {"nlp_bogus", "ml_", "data_unknown", "neural_x", "", "bogus",
     "nlp_health_check", "neural", "NLP_analyze_text"}

Methods == KnownMethods \cup UnknownMethods

\* The number of process_request calls that can be in flight at once.
MaxInFlight == 2

RequestIds == {"r" \o ToString(i) : i \in 1..MaxInFlight}

RandomDraws == {"u", "v"}

\* Two hash values with different residues modulo HashMod, one negative.
HashDraws == {-29986, 10042}

D0 == <<>>

DText == << <<"text", "hello world">> >>

DTrain == << <<"features", <<"f1", "f2">>>>, <<"target", "y">> >>

DInput == << <<"input", <<1, 2>>>> >>

DDataset == << <<"dataset", << <<1, 2, 3>>, <<4, 5, 6>> >> >> >>

DNetwork == << <<"architecture", "cnn">>, <<"layers", <<8, 4>>>> >>

O0 == <<>>

OModelType == << <<"model_type", "svm">> >>

OModelId(id) == << <<"model_id", id>> >>

OTransform == << <<"transform", "normalize">> >>

OClusters == << <<"n_clusters", 2>> >>

ONetwork == << <<"network_id", "network_42">>, <<"epochs", 5>> >>

\* The ids train_model can give out under HashDraws.
PossibleModelIds == {"model_" \o ToString(h % HashMod) : h \in HashDraws}

DataFor(m) ==
    IF m \in NLPMethods THEN {D0, DText}
    ELSE IF m \in {"ml_train_model"} THEN {DTrain}
    ELSE IF m \in {"ml_predict", "neural_inference"} THEN {DInput}
    ELSE IF m \in {"ml_evaluate_model", "ml_feature_selection"} THEN {D0, DTrain}
    ELSE IF m \in {"data_analyze", "data_clean"} THEN {D0, DDataset}
    ELSE IF m \in {"neural_create_network"} THEN {DNetwork}
    ELSE IF m \in {"neural_optimize"} THEN {D0, DNetwork}
    ELSE IF m \in KnownMethods THEN {D0}
    ELSE {D0, DText}

OptionsFor(m) ==
    IF m \in {"ml_train_model"} THEN {O0, OModelType}
    ELSE IF m \in {"ml_predict"}
    THEN {O0, OModelId("")} \cup {OModelId(id) : id \in PossibleModelIds}
    ELSE IF m \in {"data_transform"} THEN {O0, OTransform}
    ELSE IF m \in {"data_cluster"} THEN {O0, OClusters}
    ELSE IF m \in {"neural_create_network", "neural_train", "neural_inference"}
    THEN {O0, ONetwork}
    ELSE IF m \in GeneralMethods THEN {O0, OModelType}
    ELSE {O0}

RequestsFor(m) ==
    {[method |-> m, data |-> d, options |-> o, request_id |-> id] :
        d \in DataFor(m), o \in OptionsFor(m), id \in RequestIds}

\* The requests a caller may make.
AllRequests == UNION {RequestsFor(m) : m \in Methods}

\* The requests that are run as concurrent tasks: one that succeeds and one
\* that fails at a component, at the general handler and at the model store.
ConcurrentPayloads ==
    {<<"health_check", D0, O0>>, <<"bogus", D0, O0>>,
     <<"nlp_analyze_text", DText, O0>>, <<"nlp_bogus", D0, O0>>,
     <<"ml_train_model", DTrain, O0>>,
     <<"ml_predict", DInput, OModelId("model_42")>>}

ConcurrentRequests ==
    {r \in AllRequests : <<r.method, r.data, r.options>> \in ConcurrentPayloads}

\* Texts for nlp_analyze_text: missing, empty, blank, and words set apart by
\* runs of mixed whitespace, with whitespace at both ends.
DNoText == << <<"text", "">> >>

DBlank == << <<"text", "  \t\n ">> >>

DSpaced == << <<"text", " one  two\tthree. four\n">> >>

TextData == {D0, DText, DNoText, DBlank, DSpaced}

TextRequests ==
    {[method |-> "nlp_analyze_text", data |-> d, options |-> o,
      request_id |-> id] :
        d \in TextData, o \in {O0, OModelType}, id \in RequestIds}

\* The requests that write and read the stores, for tasks in flight
\* together: two trainings on the same data, one on other data, a
\* prediction, a network and an unknown method.
DTrainOther == << <<"features", <<"f3">>>>, <<"target", "z">> >>

TaskPayloads ==
    {<<"ml_train_model", DTrain, O0>>, <<"ml_train_model", DTrain, OModelType>>,
     <<"ml_train_model", DTrainOther, O0>>,
     <<"ml_predict", DInput, OModelId("model_42")>>,
     <<"neural_create_network", DNetwork, O0>>, <<"bogus", D0, O0>>}

TaskRequests ==
    {[method |-> p[1], data |-> p[2], options |-> p[3], request_id |-> id] :
        p \in TaskPayloads, id \in RequestIds}

\* The requests that are given ids: the same training data under two sets
\* of options and with its keys in the other order, the same network data
\* under two sets of options, and a prediction in between.
DTrainReordered == << <<"target", "y">>, <<"features", <<"f1", "f2">>>> >>

IdPayloads ==
    {<<"ml_train_model", DTrain, O0>>, <<"ml_train_model", DTrain, OModelType>>,
     <<"ml_train_model", DTrainReordered, O0>>,
     <<"neural_create_network", DNetwork, O0>>,
     <<"neural_create_network", DNetwork, ONetwork>>,
     <<"ml_predict", DInput, OModelId("model_42")>>}

IdRequests ==
    {[method |-> p[1], data |-> p[2], options |-> p[3], request_id |-> "r1"] :
        p \in IdPayloads}

\* The methods whose handlers draw random numbers, and those that hash.
RandomMethods ==
    {"nlp_generate_embeddings", "ml_feature_selection", "data_cluster",
     "neural_inference"}

HashingMethods == {"ml_train_model", "neural_create_network"}

\* The draws a run of the request can tell apart.
RandomDrawsFor(request) ==
    IF request.method \in RandomMethods THEN RandomDraws ELSE {"u"}

HashDrawsFor(request) ==
    IF request.method \in HashingMethods /\ Repr(request.data) \notin DOMAIN str_hash
    THEN HashDraws ELSE {10042}

\* What the callers have seen once the run's response is in: the results
\* get_capabilities has been answered with (each with is_initialized as it
\* was at the call), and the model ids train_model has given out.
Observe(request, run) ==
    LET results == UNION {resp.result : resp \in run.response}
    IN  [capabilities |->
             observed.capabilities \cup
             (IF request.method = "get_capabilities"
              THEN {<<result, is_initialized>> : result \in results} ELSE {}),
         trained |->
             observed.trained \cup
             (IF request.method = "ml_train_model"
              THEN {result.model_id : result \in results} ELSE {})]

\* The effect of a run of process_request: the stores as the handler
\* leaves them, and the call's end as its caller sees it.
Ran(request, run) ==
    /\ ml_models' = run.ml_models
    /\ networks' = run.networks
    /\ str_hash' = run.str_hash
    /\ finished' = <<[request |-> request, returned |-> run.returned,
                      response |-> run.response, call |-> run.call]>>
    /\ observed' = Observe(request, run)
    /\ UNCHANGED lifecycle

\* A caller awaits process_request(request) while no task is waiting: the
\* coroutine runs at once, to its end.
Await(request, rnd, h) ==
    /\ finished = <<>>
    /\ \A id \in RequestIds : pending[id] = <<>>
    /\ Ran(request, ProcessRequest(request, rnd, h))
    /\ UNCHANGED <<pending, answered>>

\* What a caller notes of a call of train_model or of create_network: the
\* request's method, data and options with the id in the result.
Noted(request, run) ==
    LET results == UNION {resp.result : resp \in run.response}
    IN  IF request.method = "ml_train_model"
        THEN {[method |-> request.method, data |-> request.data,
               options |-> request.options, id |-> result.model_id] :
                  result \in results}
        ELSE IF request.method = "neural_create_network"
        THEN {[method |-> request.method, data |-> request.data,
               options |-> request.options, id |-> result.network_id] :
                  result \in results}
        ELSE {}

\* A caller awaits process_request(request) and notes the id it is given.
AwaitNoted(request, h) ==
    /\ finished = <<>>
    /\ \A id \in RequestIds : pending[id] = <<>>
    /\ Ran(request, ProcessRequest(request, "u", h))
    /\ answered' = answered \cup Noted(request, ProcessRequest(request, "u", h))
    /\ UNCHANGED pending

\* A caller creates a task for process_request(request), to run later.  The
\* caller keeps the request_ids of the calls in flight distinct.
CreateTask(request) ==
    /\ finished = <<>>
    /\ pending[request.request_id] = <<>>
    /\ pending' = [pending EXCEPT ![request.request_id] = <<request>>]
    /\ UNCHANGED <<lifecycle, stores, finished, observed, answered>>

\* The event loop runs the waiting task of request_id id, to its end.
RunTask(id) ==
    /\ finished = <<>>
    /\ pending[id] # <<>>
    /\ \E rnd \in RandomDrawsFor(pending[id][1]),
          h \in HashDrawsFor(pending[id][1]) :
          Ran(pending[id][1], ProcessRequest(pending[id][1], rnd, h))
    /\ pending' = [pending EXCEPT ![id] = <<>>]
    /\ UNCHANGED answered

\* The caller of the call that has just ended takes its response (or its
\* exception).  A step's outcome is taken before the next step.
TakeResponse ==
    /\ finished # <<>>
    /\ finished' = <<>>
    /\ UNCHANGED <<lifecycle, stores, pending, observed, answered>>

\* Calls of process_request with requests drawn from the set requests:
\* awaited one at a time, or run as tasks when they are of the concurrent
\* set.
Callers(requests) ==
    \/ \E r \in requests :
          \E rnd \in RandomDrawsFor(r), h \in HashDrawsFor(r) : Await(r, rnd, h)
    \/ \E r \in requests \cap ConcurrentRequests : CreateTask(r)
    \/ \E id \in RequestIds : RunTask(id)
    \/ TakeResponse

\* main(): initialize() is called once, and no step of it fails.
InitializeOnce ==
    \/ (init_pc = "idle" /\ InitializeCall)
    \/ \E c \in ComponentSet : ComponentInitialized(c)
    \/ LoadDefaultModels(Len(DefaultModelKeys))
    \/ InitializeReturns

----------------------------------------------------------------------------
(* EVAService.ProcessRequest: the transport adapter.  A wire request holds *)
(* data and options as JSON text.                                          *)

\* ProcessingResponse(request_id=request.request_id, success=False,
\* error=str(e)), from the except clause of the adapter.
TransportFailure(wire, error) ==
    [request_id |-> wire.request_id, success |-> FALSE,
     result |-> None, error |-> error, metadata |-> None]

\* The adapter's answer when building the ProcessingRequest raised.
Rejected(wire, text) ==
    [invoked |-> FALSE, request |-> None,
     response |-> Some(TransportFailure(wire, Some(text))),
     ml_models |-> ml_models, networks |-> networks, str_hash |-> str_hash]

\* An adapter that hands empty mappings to the dispatcher when a field does
\* not parse.
Forwarded_Defaulted(wire, data, options, rnd, h) ==
    LET req == [method |-> wire.method,
                data |-> IF data.ok THEN data.value ELSE <<>>,
                options |-> IF options.ok THEN options.value ELSE <<>>,
                request_id |-> wire.request_id]
        run == ProcessRequest(req, rnd, h)
    IN  [invoked |-> TRUE, request |-> Some(req), response |-> run.response,
         ml_models |-> run.ml_models, networks |-> run.networks,
         str_hash |-> run.str_hash]

\* json.loads of data, then of options, then core.process_request(req); the
\* except clause answers for whichever of them raises.
Forwarded(wire, data, options, rnd, h) ==
    IF ~data.ok THEN Rejected(wire, JsonErrorText(wire.data, data))
    ELSE IF ~options.ok
    THEN Rejected(wire, JsonErrorText(wire.options, options))
    ELSE LET req == [method |-> wire.method, data |-> data.value,
                     options |-> options.value,
                     request_id |-> wire.request_id]
             run == ProcessRequest(req, rnd, h)
         IN  [invoked |-> TRUE, request |-> Some(req),
              response |-> IF run.returned THEN run.response
                           ELSE Some(TransportFailure(wire,
                                    Invoke(run.call, rnd, h).message)),
              ml_models |-> run.ml_models, networks |-> run.networks,
              str_hash |-> run.str_hash]

EVAServiceProcessRequest(wire, rnd, h) ==
    Forwarded(wire, JsonLoads(wire.data), JsonLoads(wire.options), rnd, h)

WireMethods == {"health_check", "ml_train_model", "ml_predict"}

WireData ==
    {"{}", "{\"features\": [\"f1\", \"f2\"], \"target\": \"y\"}",
     "", "{\"text\": \"x}", "{} x"}

WireOptions ==
    {"{}", "{\"model_id\": \"model_42\"}", "not json",
     "{\"model_id\" \"model_42\"}"}

WireIds == {"w1", "w2"}

WireRequests ==
    [method : WireMethods, data : WireData, options : WireOptions,
     request_id : WireIds]

\* A wire call arrives at the adapter and is answered.
Serve(wire) ==
    /\ finished = <<>>
    /\ \A id \in RequestIds : pending[id] = <<>>
    /\ \E h \in IF wire.method \in HashingMethods THEN HashDraws ELSE {10042} :
          LET served == EVAServiceProcessRequest(wire, "u", h)
          IN  /\ ml_models' = served.ml_models
              /\ networks' = served.networks
              /\ str_hash' = served.str_hash
              /\ finished' = <<[wire |-> wire, invoked |-> served.invoked,
                                request |-> served.request,
                                response |-> served.response]>>
              /\ observed' = IF served.invoked
                             THEN Observe(CHOOSE r \in served.request : TRUE,
                                          served)
                             ELSE observed
    /\ UNCHANGED <<lifecycle, pending, answered>>

----------------------------------------------------------------------------
Init ==
    /\ is_initialized = FALSE
    /\ models = EmptyDict
    /\ init_pc = "idle"
    /\ init_done = {}
    /\ init_failed = None
    /\ ready = {}
    /\ loaded = FALSE
    /\ ml_models = EmptyDict
    /\ networks = EmptyDict
    /\ str_hash = EmptyDict
    /\ completed = FALSE
    /\ pending = [id \in RequestIds |-> <<>>]
    /\ finished = <<>>
    /\ observed = [capabilities |-> {}, trained |-> {}]
    /\ answered = {}

(* Spec: the dispatcher through every lifecycle (initialize() called any   *)
(* number of times, failing at any step), serving the requests of the      *)
(* concurrent set.                                                         *)
Next == Initialize \/ Callers(ConcurrentRequests)

Spec == Init /\ [][Next]_vars

(* SpecRequests: the process as main() starts it, serving every request.   *)
NextRequests == InitializeOnce \/ Callers(AllRequests)

SpecRequests == Init /\ [][NextRequests]_vars

(* SpecText: the process as main() starts it, serving nlp_analyze_text.     *)
NextText == InitializeOnce \/ Callers(TextRequests)

SpecText == Init /\ [][NextText]_vars

(* SpecConcurrent: process_request calls that write and read the stores,   *)
(* run as tasks in any order.                                              *)
NextConcurrent ==
    \/ \E r \in TaskRequests : CreateTask(r)
    \/ \E id \in RequestIds : RunTask(id)
    \/ TakeResponse

SpecConcurrent == Init /\ [][NextConcurrent]_vars

(* SpecIds: process_request calls that are given ids, awaited one at a     *)
(* time in any order.                                                      *)
NextIds ==
    \/ \E r \in IdRequests : \E h \in HashDrawsFor(r) : AwaitNoted(r, h)
    \/ TakeResponse

SpecIds == Init /\ [][NextIds]_vars

(* SpecService: the dispatcher behind the transport adapter, which calls   *)
(* process_request whether or not initialize() has been called or has      *)
(* returned.                                                               *)
NextService ==
    \/ InitializeOnce
    \/ \E wire \in WireRequests : Serve(wire)
    \/ TakeResponse

SpecService == Init /\ [][NextService]_vars

----------------------------------------------------------------------------
(* Properties.  finished holds the call of process_request that the last   *)
(* step ran; the state around it is the state the call left.               *)

\* The calls that have just ended.
Ended == {finished[i] : i \in DOMAIN finished}

\* The text of a response's error.
ErrorText(resp) == CHOOSE e \in resp.error : TRUE

ResponseFields == {"request_id", "success", "result", "error", "metadata"}

\* C1: the response to a request carries the request's request_id, on
\* success and on failure, and never the id of another request in flight.
C1_RequestIdEchoed ==
    \A run \in Ended : \A resp \in run.response :
        /\ resp.request_id = run.request.request_id
        /\ \A id \in RequestIds :
              pending[id] # <<>> => resp.request_id # pending[id][1].request_id

\* A failure response is returned while another request is in flight.
C1_Witness ==
    \E run \in Ended : \E resp \in run.response :
        /\ ~resp.success
        /\ \E id \in RequestIds : pending[id] # <<>>

\* C2: in every response, success means a result and no error, failure
\* means an error and no result, and the error is absent only on success.
C2_MutualExclusivity ==
    \A run \in Ended : \A resp \in run.response :
        /\ resp.success => (resp.error = None /\ resp.result # None)
        /\ ~resp.success => (resp.result = None /\ resp.error # None)
        /\ resp.error = None => resp.success

\* A success response whose result mapping itself holds the key 'error'
\* (data_analyze without a dataset).
C2_Witness ==
    \E run \in Ended : \E resp \in run.response :
        /\ resp.success
        /\ \E result \in resp.result : "error" \in DOMAIN result

\* A request to try the dispatcher with.
ProbeRequest ==
    [method |-> "health_check", data |-> D0, options |-> O0,
     request_id |-> "r1"]

\* C3: no error of a handler escapes process_request: every call returns
\* one well-formed response, and after it the dispatcher serves on (the
\* response can be taken, and then the next request can be awaited or
\* given to a task).
C3_NoErrorEscapes ==
    /\ \A run \in Ended :
          /\ run.returned
          /\ Cardinality(run.response) = 1
          /\ \A resp \in run.response :
                /\ DOMAIN resp = ResponseFields
                /\ resp.success \in BOOLEAN
                /\ resp.request_id \in RequestIds
          /\ ENABLED TakeResponse
    /\ (finished = <<>> /\ pending[ProbeRequest.request_id] = <<>>) =>
          ENABLED CreateTask(ProbeRequest)
    /\ (finished = <<>> /\ \A id \in RequestIds : pending[id] = <<>>) =>
          ENABLED Await(ProbeRequest, "u", 10042)

\* A validation failure (ml_predict on a model id that is not in the store,
\* which holds another model) has been answered with a failure response.
C3_Witness ==
    \E run \in Ended : \E resp \in run.response :
        /\ ~resp.success
        /\ run.request.method = "ml_predict"
        /\ DOMAIN ml_models # {}

\* C4: the handler invoked is fixed by the prefix of the method alone
\* (nlp_, ml_, data_, neural_, else the general handler), and it is given
\* the request's method, data and options unchanged.
C4_RoutingByPrefix ==
    \A run \in Ended :
        LET m == run.request.method
            handler == run.call.handler
        IN  /\ StartsWith(m, "nlp_") => handler = "nlp"
            /\ StartsWith(m, "ml_") => handler = "ml"
            /\ StartsWith(m, "data_") => handler = "data"
            /\ StartsWith(m, "neural_") => handler = "neural"
            /\ (\A prefix \in {"nlp_", "ml_", "data_", "neural_"} :
                   ~StartsWith(m, prefix)) => handler = "general"
            /\ m = "nlp_health_check" => handler # "general"
            /\ run.call.method = m
            /\ run.call.data = run.request.data
            /\ run.call.options = run.request.options

\* The prefixed introspection name has been routed to the NLP component.
C4_Witness ==
    \E run \in Ended :
        run.request.method = "nlp_health_check" /\ run.call.handler = "nlp"

\* What C5 asks of the end of a call with an unknown method.
RejectedAsUnknown(run) ==
    /\ run.returned
    /\ \E resp \in run.response :
          /\ ~resp.success
          /\ resp.error # None
          /\ StartsWith(ErrorText(resp), "Unknown")
          /\ Contains(ErrorText(resp), run.request.method)

\* C5: a call whose method is none of the 16 component methods nor
\* health_check/get_capabilities ends with success=false and an error that
\* marks the method as unknown and contains it, and it changes no store.
C5_UnknownMethodRejected ==
    [][\A i \in DOMAIN finished' :
          (finished = <<>> /\ finished'[i].request.method \notin KnownMethods)
              => (RejectedAsUnknown(finished'[i]) /\ UNCHANGED stores)]_vars

\* The bare prefix 'ml_' has been rejected by the Trainer.
C5_Witness ==
    \E run \in Ended : \E resp \in run.response :
        /\ run.request.method = "ml_"
        /\ resp.error = Some("Unknown ML method: ml_")

\* C6: health_check succeeds at every point of the lifecycle, and its
\* result.initialized is is_initialized as the call found it: false until a
\* call of initialize() has returned, true from then on.
C6_HealthCheckInitialized ==
    \A run \in Ended :
        run.request.method = "health_check" =>
            \E resp \in run.response :
                /\ resp.success
                /\ \E result \in resp.result :
                      /\ result.initialized = is_initialized
                      /\ result.initialized = completed

\* health_check answered initialized = false while initialize() is between
\* load_default_models and its last statement.
C6_Witness ==
    \E run \in Ended : \E resp \in run.response :
        /\ run.request.method = "health_check"
        /\ init_pc = "set"
        /\ \E result \in resp.result : ~result.initialized

\* C7: after an initialize() that failed at a component, no call of
\* process_request returns a success response.
C7_NotCallableAfterFailedInit ==
    \A run \in Ended :
        (init_pc = "raised" /\ ~is_initialized) =>
            (~run.returned \/ \A resp \in run.response : ~resp.success)

\* The components initialize() awaits before component c.
Before(c) == {Components[i] : i \in 1..(Order(c) - 1)}

\* C8: when the initialize() of a component raises, initialize() raises at
\* once: the components after it are not initialized, the call does not
\* set is_initialized, and load_default_models is not run; unless an
\* earlier call had returned, is_initialized is false and the catalog empty.
C8_ComponentFailureAborts ==
    \A c \in init_failed :
        /\ init_pc = "raised"
        /\ init_done = Before(c)
        /\ is_initialized = completed
        /\ ~completed => (~is_initialized /\ ~loaded /\ models = EmptyDict)

\* The third component failed: the first two are initialized, no more.
C8_Witness ==
    /\ init_failed = Some("data")
    /\ init_done = {"nlp", "ml"}
    /\ ~is_initialized
    /\ models = EmptyDict

\* C9: is_initialized starts false and, once true, stays true.
C9_InitializedMonotonic ==
    /\ ~is_initialized
    /\ [][is_initialized => is_initialized']_vars

\* A repeated initialize() has failed at a component after an earlier one
\* had returned: is_initialized is still true.
C9_Witness == is_initialized /\ init_failed # None /\ init_pc = "raised"

\* C10: is_initialized is true only when all four components have been
\* initialized, load_default_models has run and a call of initialize()
\* has returned.
C10_InitializedImpliesReady ==
    is_initialized => (ready = ComponentSet /\ loaded /\ completed)

\* initialize() has returned with a catalog load_default_models left
\* short.
C10_Witness ==
    is_initialized /\ init_pc = "done" /\ Cardinality(DOMAIN models) = 1

\* C11: every get_capabilities request succeeds with the four keys nlp, ml,
\* data, neural, and all the results get_capabilities has ever been
\* answered with, whatever happened in between, are one and the same.
C11_CapabilitiesStable ==
    /\ Cardinality({answer[1] : answer \in observed.capabilities}) <= 1
    /\ \A run \in Ended :
          run.request.method = "get_capabilities" =>
              \E resp \in run.response :
                  /\ resp.success
                  /\ \E result \in resp.result :
                        /\ DOMAIN result = ComponentSet
                        /\ \A c \in ComponentSet : Len(result[c]) = 5
                        /\ <<result, is_initialized>> \in observed.capabilities

\* get_capabilities has been answered before and after initialize(), with a
\* model trained in between.
C11_Witness ==
    /\ Cardinality(observed.capabilities) = 2
    /\ observed.trained # {}
    /\ \E run \in Ended : run.request.method = "get_capabilities"

\* C12: a wire call whose data or options is not parseable JSON is answered
\* with success=false, an error message, no result and the call's
\* request_id; process_request is not invoked and the dispatcher and the
\* components are left as they were.
C12_MalformedJsonRejected ==
    [][\A i \in DOMAIN finished' :
          LET call == finished'[i]
          IN  (finished = <<>>
               /\ (~JsonLoads(call.wire.data).ok
                   \/ ~JsonLoads(call.wire.options).ok))
              => /\ ~call.invoked
                 /\ UNCHANGED <<lifecycle, stores>>
                 /\ \A resp \in call.response :
                       /\ ~resp.success
                       /\ resp.result = None
                       /\ resp.error # None
                       /\ Len(ErrorText(resp)) > 0
                       /\ resp.request_id = call.wire.request_id
                 /\ call.response # None]_vars

\* A train request whose data parses and whose options do not has been
\* turned away with the parser's message, after initialize().
C12_Witness ==
    \E call \in Ended : \E resp \in call.response :
        /\ call.wire.method = "ml_train_model"
        /\ JsonLoads(call.wire.data).ok
        /\ resp.error = Some("Expecting value: line 1 column 1 (char 0)")
        /\ resp.request_id = "w2"
        /\ is_initialized

\* The words of text from position i on: a word starts at every character
\* that is not whitespace and does not continue a word.
RECURSIVE WordsFrom(_, _, _)
WordsFrom(text, i, in_word) ==
    IF i > Len(text) THEN 0
    ELSE IF CharAt(text, i) \in Whitespace THEN WordsFrom(text, i + 1, FALSE)
    ELSE (IF in_word THEN 0 ELSE 1) + WordsFrom(text, i + 1, TRUE)

\* C13: an nlp_analyze_text request succeeds with result.word_count the
\* number of whitespace-separated words of data.text: 2 for 'hello world',
\* 0 for an empty, blank or missing text, whatever the options and the
\* state of the dispatcher.
C13_WordCount ==
    \A run \in Ended :
        run.request.method = "nlp_analyze_text" =>
            LET text == Get(run.request.data, "text", "")
            IN  \E resp \in run.response :
                    /\ resp.success
                    /\ \E result \in resp.result :
                          /\ result.word_count = WordsFrom(text, 1, FALSE)
                          /\ text = "hello world" => result.word_count = 2
                          /\ run.request.data \in {D0, DNoText, DBlank}
                                => result.word_count = 0

\* A blank text has been counted, with options given, before initialize()
\* has returned.
C13_Witness ==
    \E run \in Ended : \E resp \in run.response :
        /\ run.request.data = DBlank
        /\ run.request.options = OModelType
        /\ ~is_initialized
        /\ \E result \in resp.result : result.word_count = 0

\* The dispatcher's catalog and flag and the two component stores.
ServingState == <<models, is_initialized, ml_models, networks>>

\* C14: a call of process_request that returns success=false (unknown
\* method at a component or at the general handler, ml_predict on a model
\* that is not there) leaves the catalog, is_initialized, the Trainer's
\* model store and the Engine's network store as they were.
C14_FailureLeavesState ==
    [][\A i \in DOMAIN finished' :
          (finished = <<>> /\ \E resp \in finished'[i].response : ~resp.success)
              => UNCHANGED ServingState]_vars

\* An unknown neural method has been turned away while both stores and the
\* catalog hold entries.
C14_Witness ==
    /\ \E run \in Ended : \E resp \in run.response :
          ~resp.success /\ run.request.method = "neural_x"
    /\ DOMAIN ml_models # {}
    /\ DOMAIN networks # {}
    /\ DOMAIN models # {}

\* The key a request writes in a store, as its response names it.
Written(run, field) ==
    {result[field] : result \in UNION {resp.result : resp \in run.response}}

C16_PredictNeedsModel ==
    \A run \in Ended :
        run.request.method = "ml_predict" =>
            LET present == "model_id" \in Keys(run.request.options)
                model_id == Get(run.request.options, "model_id", "")
                named == IF present THEN model_id ELSE "None"
            IN  \E resp \in run.response :
                    /\ (~present \/ model_id = ""
                        \/ model_id \notin DOMAIN ml_models)
                          => /\ ~resp.success
                             /\ resp.result = None
                             /\ resp.error =
                                   Some("Model " \o named \o " not found")
                    /\ resp.success =>
                          /\ present
                          /\ model_id \in DOMAIN ml_models
                          /\ \E result \in resp.result :
                                result.model_id = model_id

\* A prediction without a model id has been refused while the store holds
\* a model.
C16_Witness ==
    /\ DOMAIN ml_models # {}
    /\ \E run \in Ended : \E resp \in run.response :
          /\ run.request.method = "ml_predict"
          /\ resp.error = Some("Model None not found")

\* C17: every success response has metadata with exactly the keys
\* processing_time and model_used, the same as the dispatcher attaches to
\* any other handler result; every failure response has none.
C17_MetadataDispatcherOwned ==
    \A run \in Ended : \A resp \in run.response :
        /\ resp.success =>
              /\ \E metadata \in resp.metadata :
                    DOMAIN metadata = {"processing_time", "model_used"}
              /\ resp.metadata =
                    SuccessResponse(run.request, Return(EmptyDict)).metadata
        /\ ~resp.success => resp.metadata = None

\* A clustering, whose result holds random values, has been answered with
\* the dispatcher's metadata.
C17_Witness ==
    \E run \in Ended : \E resp \in run.response :
        /\ run.request.method = "data_cluster"
        /\ resp.success
        /\ resp.metadata # None

\* C18: a failure inside load_default_models does not make initialize()
\* raise: from the await of load_default_models, initialize() goes on to
\* set is_initialized and return, however many catalog entries were
\* written; initialize() raises only when a component's initialize() did.
C18_LoadFailureSwallowed ==
    /\ [][init_pc = "load" => init_pc' \in {"load", "set"}]_vars
    /\ [][(init_pc = "set" /\ init_pc' # "set")
             => (init_pc' = "done" /\ is_initialized')]_vars
    /\ [](init_pc = "raised" => init_failed # None)

\* initialize() has returned and set is_initialized with nothing in the
\* catalog.
C18_Witness ==
    /\ is_initialized
    /\ init_pc = "done"
    /\ init_done = ComponentSet
    /\ models = EmptyDict

\* C19: once ml_train_model has answered with model_id m, every later
\* ml_predict with options.model_id = m succeeds with result.model_id = m,
\* whatever was requested in between, and no key of the Trainer's store is
\* ever removed.
C19_TrainedModelsPersist ==
    /\ [](\A run \in Ended :
             (/\ run.request.method = "ml_predict"
              /\ Get(run.request.options, "model_id", "") \in observed.trained)
                => \E resp \in run.response :
                      /\ resp.success
                      /\ \E result \in resp.result :
                            result.model_id =
                                Get(run.request.options, "model_id", ""))
    /\ [](observed.trained \subseteq DOMAIN ml_models)
    /\ [][DOMAIN ml_models \subseteq DOMAIN ml_models']_vars

\* A prediction on a trained model has succeeded after a second model was
\* trained and a network created.
C19_Witness ==
    /\ Cardinality(observed.trained) = 2
    /\ DOMAIN networks # {}
    /\ \E run \in Ended : \E resp \in run.response :
          /\ run.request.method = "ml_predict"
          /\ resp.success

\* C20: no call of process_request changes the catalog or is_initialized;
\* only ml_train_model changes the Trainer's model store and only
\* neural_create_network changes the Engine's network store.
C20_OnlyTrainAndCreateWrite ==
    [][\A i \in DOMAIN finished' :
          finished = <<>> =>
             /\ UNCHANGED <<models, is_initialized>>
             /\ finished'[i].request.method # "ml_train_model"
                   => UNCHANGED ml_models
             /\ finished'[i].request.method # "neural_create_network"
                   => UNCHANGED networks]_vars

\* A neural_train naming a network has been answered, with a model and a
\* network in the stores.
C20_Witness ==
    /\ DOMAIN ml_models # {}
    /\ DOMAIN networks # {}
    /\ \E run \in Ended : \E resp \in run.response :
          /\ run.request.method = "neural_train"
          /\ run.request.options = ONetwork
          /\ resp.success

\* C21: health_check's result.models_loaded is the number of entries of the
\* dispatcher's catalog, whatever the component stores hold: 0 until
\* load_default_models has run, 2 once it has run in full.
C21_ModelsLoadedCountsCatalog ==
    \A run \in Ended :
        run.request.method = "health_check" =>
            \E resp \in run.response : \E result \in resp.result :
                /\ result.models_loaded = Cardinality(DOMAIN models)
                /\ ~loaded => result.models_loaded = 0
                /\ loaded => result.models_loaded = Len(DefaultModelKeys)
                /\ Len(DefaultModelKeys) = 2

\* health_check has answered models_loaded = 0 while the Trainer's and the
\* Engine's stores hold entries.
C21_Witness ==
    /\ DOMAIN ml_models # {}
    /\ DOMAIN networks # {}
    /\ \E run \in Ended : \E resp \in run.response :
          /\ run.request.method = "health_check"
          /\ \E result \in resp.result : result.models_loaded = 0

\* The calls of the method that have been answered with an id.
IdsOf(method) == {a \in answered : a.method = method}

\* C22, with equal data read as Python's == on mappings (the same items in
\* any order): two calls of ml_train_model, or of neural_create_network,
\* with equal data are answered with the same id.
C22_EqualDataSameId ==
    \A a, b \in answered :
        (a.method = b.method /\ DictEq(a.data, b.data)) => a.id = b.id

\* C22, for data with the same rendering under str() (the same items in the
\* same order): within one process the two calls are answered with the same
\* id whatever their options and whatever was called in between; each store
\* holds exactly the ids given out so far; after a call the entry of its id
\* is the one made from that call's data and options; and an entry changes
\* only in a call that is answered with its id.
C22_IdFromRenderedData ==
    /\ [](\A a, b \in answered :
             (a.method = b.method /\ Repr(a.data) = Repr(b.data))
                => a.id = b.id)
    /\ [](DOMAIN ml_models = {a.id : a \in IdsOf("ml_train_model")})
    /\ [](DOMAIN networks = {a.id : a \in IdsOf("neural_create_network")})
    /\ [](\A run \in Ended : \A resp \in run.response :
             \A result \in resp.result :
                /\ run.request.method = "ml_train_model" =>
                      /\ result.model_id \in DOMAIN ml_models
                      /\ ml_models[result.model_id] =
                            [type |-> Get(run.request.options, "model_type",
                                          "random_forest"),
                             trained_at |-> "simulation",
                             features |-> Get(run.request.data, "features", <<>>),
                             target |-> Get(run.request.data, "target",
                                            "unknown")]
                /\ run.request.method = "neural_create_network" =>
                      /\ result.network_id \in DOMAIN networks
                      /\ networks[result.network_id] =
                            [architecture |-> Get(run.request.data,
                                                  "architecture", "feedforward"),
                             layers |-> Get(run.request.data, "layers",
                                            <<64, 32, 16>>),
                             activation |-> Get(run.request.data, "activation",
                                                "relu"),
                             created_at |-> "simulation"])
    /\ [][/\ \A k \in DOMAIN ml_models :
                /\ k \in DOMAIN ml_models'
                /\ ml_models'[k] # ml_models[k] =>
                      \E i \in DOMAIN finished' :
                         /\ finished'[i].request.method = "ml_train_model"
                         /\ \E resp \in finished'[i].response :
                               \E result \in resp.result : result.model_id = k
          /\ \A k \in DOMAIN networks :
                /\ k \in DOMAIN networks'
                /\ networks'[k] # networks[k] =>
                      \E i \in DOMAIN finished' :
                         /\ finished'[i].request.method = "neural_create_network"
                         /\ \E resp \in finished'[i].response :
                               \E result \in resp.result :
                                  result.network_id = k]_vars

\* Three trainings have been answered, two of them on the same data under
\* different options and with the same id, and the store holds two models;
\* the training just answered has replaced the entry of its id; the same
\* network data has been given the same id under different options.
C22_Witness ==
    /\ Cardinality(IdsOf("ml_train_model")) = 3
    /\ Cardinality(DOMAIN ml_models) = 2
    /\ \E a, b \in IdsOf("ml_train_model") :
          a.data = b.data /\ a.options # b.options /\ a.id = b.id
    /\ \E a, b \in IdsOf("neural_create_network") :
          a.data = b.data /\ a.options # b.options /\ a.id = b.id
    /\ \E run \in Ended :
          /\ run.request.method = "ml_train_model"
          /\ run.request.data = DTrain
          /\ run.request.options = OModelType
          /\ \E a \in IdsOf("ml_train_model") :
                /\ a.data = DTrain
                /\ a.options = O0
                /\ ml_models[a.id].type = "svm"

====
